---------------------------- MODULE Spec2Model ----------------------------
(***************************************************************************)
(* Model of the polling primitive of @tempyemail/e2e-testing.              *)
(*                                                                         *)
(* The source holds two implementations of pollUntil:                      *)
(*   - the "race" implementation (polling.test.ts 281-321): a polling      *)
(*     loop raced against a timeout timer with Promise.race;               *)
(*   - the "loop" implementation (polling.test.ts 336-369): one loop that  *)
(*     checks the elapsed time after every absent probe result.            *)
(* Both are modelled; impl selects the one a behaviour runs.               *)
(*                                                                         *)
(* Time is in milliseconds since the call started (startTime = 0).  Timers *)
(* are ideal: a timer fires at the instant it is due, and time does not    *)
(* advance past a due event.  A probe invocation that takes 0ms settles in *)
(* a microtask, i.e. before any timer callback of the same instant; events *)
(* of the same instant are otherwise unordered.                            *)
(*                                                                         *)
(* JavaScript values are modelled by strings naming them: "null",          *)
(* "undefined", "0", "false", "" (the empty string) and "success".         *)
(***************************************************************************)
EXTENDS Integers, Sequences, FiniteSets, TLC

(* ------------------------------ bounds -------------------------------- *)

\* Cap on the number of probe invocations of one behaviour.
MaxCalls == 5

\* Cap on the modelled time, in ms.
MaxTime == 9000

(* ------------------------- program constants -------------------------- *)

DefaultTimeout == 30000

DefaultInterval == 1000

DefaultMaxInterval == 5000

\* Math.min(currentInterval * 1.5, maxInterval): 1.5 = BackoffNum / BackoffDen
BackoffNum == 3

BackoffDen == 2

(* ------------------------------ inputs -------------------------------- *)

\* Values of the options the caller may pass (each option may also be left out).
TimeoutSet == {0, 3000}

IntervalSet == {1000, 2000}

MaxIntervalSet == {1000, 2000}

\* How long one probe invocation may take, in ms.
DurSet == {0, 1500}

\* Results a probe can yield that are neither null nor undefined.
DefinedValues == {"0", "false", "", "success"}

\* The two results the spec calls "absent".
AbsentValues == {"null", "undefined"}

OptionNames == {"timeout", "interval", "maxInterval", "backoff"}

\* PollOptions: every field is optional.
PollOptions ==
  { [f \in S |-> full[f]] :
      full \in [timeout : TimeoutSet, interval : IntervalSet,
                maxInterval : MaxIntervalSet, backoff : BOOLEAN],
      S \in SUBSET OptionNames }

\* A probe: absent results on invocations 1..at-1, then on invocation `at`
\* either a defined value or a raised error.  at = MaxCalls + 1 is a probe
\* that stays absent for the whole behaviour.
Probes ==
  [at : 1..(MaxCalls + 1), yields : DefinedValues \cup {"throw"}]

VARIABLES
  impl,            \* "race" or "loop": which pollUntil runs
  options,         \* the PollOptions argument
  fn,              \* the probe argument
  now,             \* ms since the call started
  pc,              \* position of the polling loop: init, probe, sleep, done
  currentInterval, \* let currentInterval
  timeoutTimer,    \* race: the setTimeout of timeoutPromise: none, armed, fired
  probeDue,        \* time at which the in-flight invocation settles
  sleepDue,        \* time at which the interval timer fires
  calls,           \* number of probe invocations started
  inFlight,        \* number of probe invocations started and not settled
  outcome,         \* settlement of the promise pollUntil returned
  result,          \* the value or error it settled with
  settledAt,       \* when it settled
  lastResult,      \* what the last settled invocation yielded
  delays,          \* the delays passed to setTimeout by the loop, in order
  invokedAt,       \* the times of the probe invocations, in order
  instant          \* TRUE while every invocation so far took 0ms

vars == <<impl, options, fn, now, pc, currentInterval, timeoutTimer, probeDue,
          sleepDue, calls, inFlight, outcome, result, settledAt, lastResult,
          delays, invokedAt, instant>>

\* The state of a Mailbox wait call (waitForEmail, waitForOTP, waitForLink),
\* whose probe fetches the message list and scans it.
VARIABLES
  op,              \* what was called: pollUntil, waitForEmail, waitForOTP, waitForLink
  mailboxTimeout,  \* this.timeout of the Mailbox
  waitOptions,     \* the options argument of the wait call
  inbox,           \* the ids of the messages the server holds, in list order
  lastIndex,       \* lastIndex of the RegExp objects given as subject and from
  concurrent,      \* TRUE when a second waitForEmail, given the same sender
                   \* matcher, runs interleaved with this one
  waitOutcome,     \* settlement of the promise the wait call returned
  waitResult,      \* the value or error it settled with
  waitSettledAt,   \* when it settled
  inboxAtStart,    \* the list the server held when the call began
  lastIndexAtStart, \* lastIndex of the RegExp objects when the call began
  lastList,        \* the list the last successful fetch returned
  firstMatch,      \* number and time of the first fetch whose list held a
                   \* message satisfying the criteria (0, -1 before)
  soloLastIndex,   \* lastIndex as it would be had no other call run
  diverged         \* TRUE once a scan returned what it would not have alone

mailboxVars == <<op, mailboxTimeout, waitOptions, inbox, lastIndex, concurrent,
                 waitOutcome, waitResult, waitSettledAt, inboxAtStart,
                 lastIndexAtStart, lastList, firstMatch, soloLastIndex,
                 diverged>>

\* The client that created the Mailbox, the Mailbox, and the HTTP requests
\* the wait call has issued.
VARIABLES
  config,          \* the TempyEmailConfig given to new TempyEmail(config)
  mailbox,         \* the public fields of the Mailbox: address, expiresAt, webhookUrl
  requests         \* the requests issued so far, as [method, url]

ioVars == <<config, mailbox, requests>>

\* A call of an extractor of parsers/otp on its own.
VARIABLES
  otpText,         \* the text argument
  otpLength,       \* the length argument: <<>> when omitted, else <<length>>
  otpCode          \* what the extractor returned ([none |-> TRUE] before the call)

extractVars == <<otpText, otpLength, otpCode>>

\* Everything but the state of pollUntil.
restVars == <<mailboxVars, ioVars, extractVars>>

allVars == <<vars, mailboxVars, ioVars, extractVars>>

(* --------------------------- pure helpers ----------------------------- *)

Min(a, b) == IF a <= b THEN a ELSE b

\* const { timeout = 30000, interval = 1000, maxInterval = 5000,
\*         backoff = true } = options
Timeout == IF "timeout" \in DOMAIN options THEN options.timeout ELSE DefaultTimeout

Interval == IF "interval" \in DOMAIN options THEN options.interval ELSE DefaultInterval

MaxInterval ==
  IF "maxInterval" \in DOMAIN options THEN options.maxInterval ELSE DefaultMaxInterval

Backoff == IF "backoff" \in DOMAIN options THEN options.backoff ELSE TRUE

(* ------------------------------- text --------------------------------- *)
\* A JavaScript string is modelled by the sequence of its characters.

Digits == {"0", "1", "2", "3", "4", "5", "6", "7", "8", "9"}

LowerLetters ==
  <<"a", "b", "c", "d", "e", "f", "g", "h", "i", "j", "k", "l", "m",
    "n", "o", "p", "q", "r", "s", "t", "u", "v", "w", "x", "y", "z">>

UpperLetters ==
  <<"A", "B", "C", "D", "E", "F", "G", "H", "I", "J", "K", "L", "M",
    "N", "O", "P", "Q", "R", "S", "T", "U", "V", "W", "X", "Y", "Z">>

Range(f) == {f[i] : i \in DOMAIN f}

Letters == Range(LowerLetters) \cup Range(UpperLetters)

\* \w of a regular expression
WordChars == Letters \cup Digits \cup {"_"}

\* [0-9a-f] under the i flag
HexChars == Digits \cup {"a", "b", "c", "d", "e", "f", "A", "B", "C", "D", "E", "F"}

\* \s of a regular expression (the characters the modelled texts use)
SpaceChars == {" ", "\n", "\t"}

\* c.toLowerCase()
LowerChar(c) ==
  IF c \in Range(UpperLetters)
  THEN LowerLetters[CHOOSE i \in DOMAIN UpperLetters : UpperLetters[i] = c]
  ELSE c

Lower(t) == [i \in DOMAIN t |-> LowerChar(t[i])]

\* s occurs in t at the 0-based position p
OccursAt(t, s, p) ==
  /\ p >= 0
  /\ p + Len(s) <= Len(t)
  /\ \A i \in 1..Len(s) : t[p + i] = s[i]

\* s, in lower case, occurs in t at position p when case is ignored
OccursAtIgnoringCase(t, s, p) ==
  /\ p >= 0
  /\ p + Len(s) <= Len(t)
  /\ \A i \in 1..Len(s) : LowerChar(t[p + i]) = s[i]

\* t.indexOf(s, from): the first position >= from at which s occurs, or -1
IndexOf(t, s, from) ==
  IF \E p \in from..Len(t) : OccursAt(t, s, p)
  THEN CHOOSE p \in from..Len(t) :
         /\ OccursAt(t, s, p)
         /\ \A q \in from..(p - 1) : ~OccursAt(t, s, q)
  ELSE -1

\* t.includes(s)
Includes(t, s) == IndexOf(t, s, 0) >= 0

\* The 0-based position after the longest run of characters of `set` that
\* starts at position p.
RECURSIVE RunEnd(_, _, _)
RunEnd(t, p, set) ==
  IF p < Len(t) /\ t[p + 1] \in set THEN RunEnd(t, p + 1, set) ELSE p

\* t.substring(from, to)
Substring(t, from, to) == SubSeq(t, from + 1, to)

(* ------------------------- regular expressions ------------------------- *)
\* A RegExp matcher is modelled for literal patterns: source is the text the
\* pattern matches, global is its g flag.  lastIndex is the state of the
\* RegExp object, which test() reads and writes when the g flag is set.

\* regexp.test(t) with the object's lastIndex at li:
\* whether it matches, and the lastIndex it leaves.
RegExpTest(re, t, li) ==
  IF ~re.global
  THEN [ok |-> Includes(t, re.source), lastIndex |-> li]
  ELSE IF li > Len(t)
  THEN [ok |-> FALSE, lastIndex |-> 0]
  ELSE LET p == IndexOf(t, re.source, li)
       IN  IF p >= 0
           THEN [ok |-> TRUE, lastIndex |-> p + Len(re.source)]
           ELSE [ok |-> FALSE, lastIndex |-> 0]

\* typeof m === 'string' ? t.includes(m) : m.test(t)
MatcherTest(m, t, li) ==
  IF m.type = "string"
  THEN [ok |-> Includes(t, m.text), lastIndex |-> li]
  ELSE RegExpTest(m, t, li)

(* ---------------------------- OTP extraction --------------------------- *)
\* The value null of an extractor, and a string value.
Null == [null |-> TRUE]

Str(t) == [text |-> t]

\* value is falsy: null or the empty string
Falsy(v) == v = Null \/ v = Str(<<>>)

\* The 0-based positions where a \b is followed by a word character.
WordStarts(t) ==
  {p \in 0..(Len(t) - 1) :
     t[p + 1] \in WordChars /\ (p = 0 \/ t[p] \notin WordChars)}

\* The run of word characters that starts at position p.
WordAt(t, p) == Substring(t, p, RunEnd(t, p, WordChars))

\* The leftmost element of a set of positions, -1 for the empty set.
Leftmost(ps) == IF ps = {} THEN -1 ELSE CHOOSE p \in ps : \A q \in ps : p <= q

\* text.match(/\b(\d{min,max})\b/): group 1 of the leftmost match, or null
extractNumericOTP(text, minLength, maxLength) ==
  LET p == Leftmost({q \in WordStarts(text) :
                       /\ Range(WordAt(text, q)) \subseteq Digits
                       /\ Len(WordAt(text, q)) \in minLength..maxLength})
  IN  IF p >= 0 THEN Str(WordAt(text, p)) ELSE Null

\* text.match(/\b(\d{6})\b/)
extract6DigitOTP(text) == extractNumericOTP(text, 6, 6)

\* text.match(/\b([A-Z0-9]{length})\b/i)
extractAlphanumericOTP(text, length) ==
  LET p == Leftmost({q \in WordStarts(text) :
                       /\ Range(WordAt(text, q)) \subseteq (Letters \cup Digits)
                       /\ Len(WordAt(text, q)) = length})
  IN  IF p >= 0 THEN Str(WordAt(text, p)) ELSE Null

\* The lengths of the hexadecimal groups of a UUID.
UUIDGroups == <<8, 4, 4, 4, 12>>

\* The 0-based offset of group g of a UUID within the match.
UUIDOffset == <<0, 9, 14, 19, 24>>

UUIDLength == 36

\* /\b[0-9a-f]{8}-[0-9a-f]{4}-[0-9a-f]{4}-[0-9a-f]{4}-[0-9a-f]{12}\b/i matches
\* at position p
UUIDAt(text, p) ==
  /\ p \in WordStarts(text)
  /\ p + UUIDLength <= Len(text)
  /\ \A g \in DOMAIN UUIDGroups :
       /\ \A i \in 1..UUIDGroups[g] : text[p + UUIDOffset[g] + i] \in HexChars
       /\ g > 1 => text[p + UUIDOffset[g]] = "-"
  /\ (p + UUIDLength < Len(text) => text[p + UUIDLength + 1] \notin WordChars)

extractUUID(text) ==
  LET p == Leftmost({q \in WordStarts(text) : UUIDAt(text, q)})
  IN  IF p >= 0 THEN Str(Substring(text, p, p + UUIDLength)) ELSE Null

\* The default length of an alphanumeric code.
AlphanumericLength == 6

MinNumericLength == 4

MaxNumericLength == 8

\* 6 digits, then 4 to 8 digits, then alphanumeric, then UUID
extractOTP(text) ==
  IF ~Falsy(extract6DigitOTP(text)) THEN extract6DigitOTP(text)
  ELSE IF ~Falsy(extractNumericOTP(text, MinNumericLength, MaxNumericLength))
  THEN extractNumericOTP(text, MinNumericLength, MaxNumericLength)
  ELSE IF ~Falsy(extractAlphanumericOTP(text, AlphanumericLength))
  THEN extractAlphanumericOTP(text, AlphanumericLength)
  ELSE IF ~Falsy(extractUUID(text)) THEN extractUUID(text)
  ELSE Null

\* A custom OTP pattern /prefix(\d{n})/ is modelled by its literal prefix and
\* the number n of digits of its group.
PatternAt(text, pattern, p) ==
  /\ OccursAt(text, pattern.prefix, p)
  /\ p + Len(pattern.prefix) + pattern.digits <= Len(text)
  /\ \A i \in 1..pattern.digits : text[p + Len(pattern.prefix) + i] \in Digits

\* match ? match[1] || match[0] : null
extractByPattern(text, pattern) ==
  LET p == Leftmost({q \in 0..Len(text) : PatternAt(text, pattern, q)})
      start == p + Len(pattern.prefix)
  IN  IF p < 0 THEN Null
      ELSE IF pattern.digits > 0
      THEN Str(Substring(text, start, start + pattern.digits))
      ELSE Str(pattern.prefix)

(* --------------------------- link extraction --------------------------- *)
\* The characters that end a URL: [\s<>"]
UrlStops == SpaceChars \cup {"<", ">", "\""}

\* The characters /[.,;!?)]$/ removes from the end of a URL.
TrailingPunctuation == {".", ",", ";", "!", "?", ")"}

QuoteChars == {"\"", "'"}

HttpPrefix == <<"h", "t", "t", "p", ":", "/", "/">>

HttpsPrefix == <<"h", "t", "t", "p", "s", ":", "/", "/">>

HrefPrefix == <<"h", "r", "e", "f", "=">>

\* The 0-based position after the longest run of characters outside `set`
\* that starts at position p.
RECURSIVE RunEndNot(_, _, _)
RunEndNot(t, p, set) ==
  IF p < Len(t) /\ t[p + 1] \notin set THEN RunEndNot(t, p + 1, set) ELSE p

\* The position where the [^\s<>"]+ part of a match of /https?:\/\/[^\s<>"]+/i
\* at p starts, or -1 when the pattern does not match at p.
UrlRestAt(text, p) ==
  LET rest(prefix) == p + Len(prefix)
      ok(prefix) == /\ OccursAtIgnoringCase(text, prefix, p)
                    /\ RunEndNot(text, rest(prefix), UrlStops) > rest(prefix)
  IN  IF ok(HttpsPrefix) THEN rest(HttpsPrefix)
      ELSE IF ok(HttpPrefix) THEN rest(HttpPrefix)
      ELSE -1

\* url.replace(/[.,;!?)]$/, '')
StripTrailing(url) ==
  IF url # <<>> /\ url[Len(url)] \in TrailingPunctuation
  THEN SubSeq(url, 1, Len(url) - 1)
  ELSE url

\* text.match(urlPattern) from position `from` on, each match stripped.
RECURSIVE PlainUrls(_, _)
PlainUrls(text, from) ==
  LET p == Leftmost({q \in from..Len(text) : UrlRestAt(text, q) >= 0})
      end == RunEndNot(text, UrlRestAt(text, p), UrlStops)
  IN  IF p < 0 THEN <<>>
      ELSE <<StripTrailing(Substring(text, p, end))>> \o PlainUrls(text, end)

\* The end of the match of /href=["']([^"']+)["']/i at p, or -1.
HrefEndAt(text, p) ==
  LET start == p + Len(HrefPrefix) + 1
      end == RunEndNot(text, start, QuoteChars)
  IN  IF /\ OccursAtIgnoringCase(text, HrefPrefix, p)
         /\ start <= Len(text)
         /\ text[start] \in QuoteChars
         /\ end > start
         /\ end < Len(text)
      THEN end + 1
      ELSE -1

\* url.startsWith('http://') || url.startsWith('https://')
IsHttp(url) == OccursAt(url, HttpPrefix, 0) \/ OccursAt(url, HttpsPrefix, 0)

\* The groups of the successive hrefPattern.exec(text) from `from` on that
\* start with http:// or https://.
RECURSIVE HrefUrls(_, _)
HrefUrls(text, from) ==
  LET p == Leftmost({q \in from..Len(text) : HrefEndAt(text, q) >= 0})
      end == HrefEndAt(text, p)
      url == Substring(text, p + Len(HrefPrefix) + 1, end - 1)
  IN  IF p < 0 THEN <<>>
      ELSE (IF IsHttp(url) THEN <<url>> ELSE <<>>) \o HrefUrls(text, end)

\* Array.from(new Set(urls)): the first occurrence of each element, in order
RECURSIVE Dedupe(_)
Dedupe(urls) ==
  IF urls = <<>> THEN <<>>
  ELSE LET init == Dedupe(SubSeq(urls, 1, Len(urls) - 1))
           last == urls[Len(urls)]
       IN  IF last \in Range(init) THEN init ELSE Append(init, last)

extractLinks(text) == Dedupe(PlainUrls(text, 0) \o HrefUrls(text, 0))

\* The sources of the default patterns, all with the i flag.
defaultPatterns ==
  << <<"v", "e", "r", "i", "f", "y">>,
     <<"c", "o", "n", "f", "i", "r", "m">>,
     <<"a", "c", "t", "i", "v", "a", "t", "e">>,
     <<"t", "o", "k", "e", "n", "=">>,
     <<"r", "e", "s", "e", "t">>,
     <<"m", "a", "g", "i", "c">> >>

\* pattern.test(link): a custom link pattern is a literal without flags,
\* an absent one the default patterns
LinkMatches(link, pattern) ==
  IF pattern = Null
  THEN \E i \in DOMAIN defaultPatterns : Includes(Lower(link), defaultPatterns[i])
  ELSE Includes(link, pattern.source)

\* The first extracted link the pattern matches, or null.
extractVerificationLink(text, pattern) ==
  LET links == extractLinks(text)
      hits == {i \in DOMAIN links : LinkMatches(links[i], pattern)}
  IN  IF hits = {} THEN Null ELSE Str(links[Leftmost(hits)])

(* ------------------------------ messages ------------------------------ *)
\* The emails the server may hold (Email: id, from, subject, bodyText and the
\* optional bodyHtml).
Emails ==
  [m1 |-> [from |-> <<"a", "@", "x">>,
           subject |-> <<"Y">>,
           bodyText |-> <<"C", "o", "d", "e", ":", " ", "1", "1", "1", "1", "1", "1", " ",
                          "h", "t", "t", "p", ":", "/", "/", "t", "/", "v", "e", "r", "i", "f", "y">>,
           bodyHtml |-> <<"<", "b", ">", "h", "i", "<", "/", "b", ">">>],
   m2 |-> [from |-> <<"b", "@", "x">>,
           subject |-> <<"Y">>,
           bodyText |-> <<"Y", "o", "u", "r", " ", "c", "o", "d", "e", " ", "i", "s", " ", "1", "2", "3", "4", "5", "6">>],
   m3 |-> [from |-> <<"b", "@", "x">>,
           subject |-> <<"X">>,
           bodyText |-> <<"h", "t", "t", "p", ":", "/", "/", "t", "/", "r", "e", "s", "e", "t">>,
           bodyHtml |-> <<>>],
   m4 |-> [from |-> <<"b", "@", "x">>,
           subject |-> <<"Y">>,
           bodyText |-> <<"s", "e", "e", " ", "h", "t", "t", "p", ":", "/", "/", "t", "/", "v", "e", "r", "i", "f", "y", ".">>,
           bodyHtml |-> <<"<", "a", " ", "h", "r", "e", "f", "=", "\"", "h", "t", "t", "p", ":", "/", "/", "h", "/", "v", "e", "r", "i", "f", "y", "\"", ">">>]]

EmailIds == DOMAIN Emails

\* The matchers a caller may pass as subject and as from.
SubjectMatchers ==
  {[type |-> "string", text |-> <<"Y">>],
   [type |-> "regexp", source |-> <<"Y">>, global |-> TRUE]}

FromMatchers ==
  {[type |-> "string", text |-> <<"b", "@">>],
   [type |-> "regexp", source |-> <<"b", "@">>, global |-> TRUE]}

\* The custom patterns a caller may pass to waitForOTP: /Code: (\d{4})/ and
\* to waitForLink: /reset/
OTPPatterns == {[prefix |-> <<"C", "o", "d", "e", ":", " ">>, digits |-> 4]}

LinkPatterns == {[source |-> <<"r", "e", "s", "e", "t">>]}

(* ---------------------------- the probe ------------------------------- *)
\* const { timeout = this.timeout, subject, from, pollInterval = 1000 } = options
\* waitForOTP and waitForLink forward timeout and from only.
HasSubject == op = "waitForEmail" /\ "subject" \in DOMAIN waitOptions

HasFrom == "from" \in DOMAIN waitOptions

HasPattern == op # "waitForEmail" /\ "pattern" \in DOMAIN waitOptions

\* Mutant of WaitTimeout: the timeout of the options is ignored.
WaitTimeout_IgnoresOption == mailboxTimeout

WaitTimeout ==
  IF "timeout" \in DOMAIN waitOptions THEN waitOptions.timeout ELSE mailboxTimeout

\* The body of the loop over the messages, from the i-th message on, when
\* the RegExp objects have the lastIndex values li: the message returned
\* (null when none is) and the lastIndex values left behind.
RECURSIVE ScanFrom(_, _, _)
ScanFrom(messages, i, li) ==
  IF i > Len(messages) THEN [found |-> "null", lastIndex |-> li]
  ELSE LET message == Emails[messages[i]]
           subjectMatches ==
             IF HasSubject
             THEN MatcherTest(waitOptions.subject, message.subject, li.subject)
             ELSE [ok |-> TRUE, lastIndex |-> li.subject]
           fromMatches ==
             IF subjectMatches.ok /\ HasFrom
             THEN MatcherTest(waitOptions.from, message.from, li.from)
             ELSE [ok |-> TRUE, lastIndex |-> li.from]
           left == [subject |-> subjectMatches.lastIndex,
                    from |-> fromMatches.lastIndex]
       IN  IF subjectMatches.ok /\ fromMatches.ok
           THEN [found |-> messages[i], lastIndex |-> left]
           ELSE ScanFrom(messages, i + 1, left)

Scan(messages, li) == ScanFrom(messages, 1, li)

\* The error a probe may raise: the one the probe of a pollUntil test throws,
\* the one fetch rejects with, the one getMessages throws for a response
\* that is not ok.
ProbeError ==
  IF fn.yields = "transport" THEN [message |-> <<"fetch failed">>]
  ELSE IF fn.yields = "http"
  THEN [message |-> <<"Failed to get messages: ", "404", " ", "Not Found">>]
  ELSE [message |-> <<"Network error">>]

\* new Error(`No OTP code found in email. Subject: "${email.subject}"`)
NoOTPError(email) ==
  [message |-> <<"No OTP code found in email. Subject: \"", email.subject, "\"">>]

\* new Error(`No verification link found in email. Subject: "${email.subject}"`)
NoLinkError(email) ==
  [message |-> <<"No verification link found in email. Subject: \"", email.subject, "\"">>]

\* Mutant of RaceIsResult: a truthiness test, if (result).
RaceIsResult_Truthy(r) == r \notin {"null", "undefined", "0", "false", ""}

\* race: result !== null && result !== undefined
RaceIsResult(r) == r # "null" /\ r # "undefined"

\* loop: result !== null
LoopIsResult(r) == r # "null"

\* if (backoff) currentInterval = Math.min(currentInterval * 1.5, maxInterval)
NextInterval(cur) ==
  IF Backoff THEN Min((cur * BackoffNum) \div BackoffDen, MaxInterval) ELSE cur

\* new Error(`Polling timeout after ${timeout}ms`)
TimeoutError(ms) == [message |-> <<"Polling timeout after ", ms, "ms">>]

\* The ways a probe fails: a pollUntil probe throws, fetch rejects,
\* the response is not ok.
Failures == {"throw", "transport", "http"}

Throws(n) == n >= fn.at /\ fn.yields \in Failures

\* What invocation number n of the probe yields: for pollUntil what the
\* probe `fn` says, for a wait call what the scan of the fetched list returns.
Yields(n) ==
  IF Throws(n) THEN {}
  ELSE IF op = "pollUntil"
  THEN (IF n < fn.at THEN AbsentValues ELSE {fn.yields})
  ELSE {Scan(inbox, lastIndex).found}

\* The Mailbox of the model: address, expiresAt (ms), webhookUrl (absent).
TheMailbox == [address |-> "test@tempy.email", expiresAt |-> 3600000]

\* fetch(`${this.baseUrl}/mailbox/${this.address}`, { method: 'GET' })
GetMessagesRequest == [method |-> "GET", url |-> <<"/mailbox/", TheMailbox.address>>]

(* ------------------------------- Init --------------------------------- *)

Init ==
  /\ impl \in {"race", "loop"}
  /\ options \in PollOptions
  /\ fn \in Probes
  /\ now = 0
  /\ pc = "init"
  /\ currentInterval = 0
  /\ timeoutTimer = "none"
  /\ probeDue = -1
  /\ sleepDue = -1
  /\ calls = 0
  /\ inFlight = 0
  /\ outcome = "pending"
  /\ result = [none |-> TRUE]
  /\ settledAt = -1
  /\ lastResult = "none"
  /\ delays = <<>>
  /\ invokedAt = <<>>
  /\ instant = TRUE
  /\ op = "pollUntil"
  /\ mailboxTimeout = DefaultTimeout
  /\ waitOptions = <<>>
  /\ inbox = <<>>
  /\ lastIndex = [subject |-> 0, from |-> 0]
  /\ concurrent = FALSE
  /\ waitOutcome = "pending"
  /\ waitResult = [none |-> TRUE]
  /\ waitSettledAt = -1
  /\ inboxAtStart = <<>>
  /\ lastIndexAtStart = [subject |-> 0, from |-> 0]
  /\ lastList = <<>>
  /\ firstMatch = [fetch |-> 0, at |-> -1]
  /\ soloLastIndex = [subject |-> 0, from |-> 0]
  /\ diverged = FALSE
  /\ config = <<>>
  /\ mailbox = TheMailbox
  /\ requests = {}
  /\ otpText = <<>>
  /\ otpLength = <<>>
  /\ otpCode = [none |-> TRUE]

(* --------------------------- shared steps ----------------------------- *)

\* fn() is called: the invocation starts now and settles d ms later.
Invoke(d) ==
  /\ calls' = calls + 1
  /\ inFlight' = inFlight + 1
  /\ probeDue' = now + d
  /\ invokedAt' = Append(invokedAt, now)
  /\ instant' = (instant /\ d = 0)
  /\ pc' = "probe"

\* Mutant of Sleep: the timer is set to fire at once.
Sleep_Shortened ==
  /\ sleepDue' = now
  /\ delays' = Append(delays, currentInterval)
  /\ pc' = "sleep"

\* await new Promise((resolve) => setTimeout(resolve, currentInterval))
Sleep ==
  /\ sleepDue' = now + currentInterval
  /\ delays' = Append(delays, currentInterval)
  /\ pc' = "sleep"

\* Promise.race: the first settlement wins, later ones are ignored.
Settle(kind, val) ==
  IF outcome = "pending"
  THEN outcome' = kind /\ result' = val /\ settledAt' = now
  ELSE UNCHANGED <<outcome, result, settledAt>>

\* A 0ms invocation settles in a microtask, before any timer callback.
MicrotaskPending ==
  pc = "probe" /\ probeDue = now /\ invokedAt[Len(invokedAt)] = now

(* ------------------------- race implementation ------------------------ *)

\* pollUntil is called: destructure the options, arm the timeout timer,
\* start the loop, which calls fn() at once.
RaceStart ==
  /\ impl = "race" /\ pc = "init"
  /\ currentInterval' = Interval
  /\ timeoutTimer' = "armed"
  /\ \E d \in DurSet : Invoke(d)
  /\ UNCHANGED <<impl, options, fn, now, sleepDue, outcome, result, settledAt,
                 lastResult, delays>>

\* Mutant of RaceProbeResolves: a present result settles the call but the
\* loop goes on polling.
RaceProbeResolves_KeepsPolling ==
  /\ impl = "race" /\ pc = "probe" /\ now = probeDue
  /\ \E r \in Yields(calls) :
       /\ lastResult' = r
       /\ inFlight' = inFlight - 1
       /\ Sleep
       /\ IF RaceIsResult(r)
          THEN Settle("value", [value |-> r])
          ELSE UNCHANGED <<outcome, result, settledAt>>
  /\ UNCHANGED <<impl, options, fn, now, currentInterval, timeoutTimer,
                 probeDue, calls, invokedAt, instant>>

\* await fn() yields r: return it, or wait for the current interval.
RaceProbeResolves ==
  /\ impl = "race" /\ pc = "probe" /\ now = probeDue
  /\ \E r \in Yields(calls) :
       /\ lastResult' = r
       /\ inFlight' = inFlight - 1
       /\ IF RaceIsResult(r)
          THEN /\ pc' = "done"
               /\ Settle("value", [value |-> r])
               /\ UNCHANGED <<sleepDue, delays>>
          ELSE /\ Sleep
               /\ UNCHANGED <<outcome, result, settledAt>>
  /\ UNCHANGED <<impl, options, fn, now, currentInterval, timeoutTimer,
                 probeDue, calls, invokedAt, instant>>

\* Mutant of RaceProbeRejects: the error is caught and the probe retried
\* after the current interval.
RaceProbeRejects_Retry ==
  /\ impl = "race" /\ pc = "probe" /\ now = probeDue
  /\ Throws(calls)
  /\ lastResult' = "throw"
  /\ inFlight' = inFlight - 1
  /\ Sleep
  /\ UNCHANGED <<impl, options, fn, now, currentInterval, timeoutTimer,
                 probeDue, calls, outcome, result, settledAt, invokedAt,
                 instant>>

\* await fn() raises: the loop ends, pollingPromise rejects.
RaceProbeRejects ==
  /\ impl = "race" /\ pc = "probe" /\ now = probeDue
  /\ Throws(calls)
  /\ lastResult' = "throw"
  /\ inFlight' = inFlight - 1
  /\ pc' = "done"
  /\ Settle("error", ProbeError)
  /\ UNCHANGED <<impl, options, fn, now, currentInterval, timeoutTimer,
                 probeDue, sleepDue, calls, delays, invokedAt, instant>>

\* Mutant of RaceIntervalFires: the timer callback probes whether or not the
\* previous invocation has settled (a repeating timer instead of an awaited one).
RaceIntervalFires_Reentrant ==
  /\ impl = "race" /\ pc \in {"sleep", "probe"} /\ now = sleepDue
  /\ calls < MaxCalls
  /\ currentInterval' = NextInterval(currentInterval)
  /\ \E d \in DurSet : Invoke(d)
  /\ UNCHANGED <<impl, options, fn, now, timeoutTimer, sleepDue, outcome,
                 result, settledAt, lastResult, delays>>

\* The interval timer fires: apply the backoff, call fn() again.
RaceIntervalFires ==
  /\ impl = "race" /\ pc = "sleep" /\ now = sleepDue
  /\ calls < MaxCalls
  /\ currentInterval' = NextInterval(currentInterval)
  /\ \E d \in DurSet : Invoke(d)
  /\ UNCHANGED <<impl, options, fn, now, timeoutTimer, sleepDue, outcome,
                 result, settledAt, lastResult, delays>>

\* The timer of timeoutPromise fires: reject with the timeout error.
RaceTimeoutFires ==
  /\ impl = "race" /\ timeoutTimer = "armed" /\ now = Timeout
  /\ ~MicrotaskPending
  /\ timeoutTimer' = "fired"
  /\ Settle("timeout", TimeoutError(Timeout))
  /\ UNCHANGED <<impl, options, fn, now, pc, currentInterval, probeDue,
                 sleepDue, calls, inFlight, lastResult, delays, invokedAt,
                 instant>>

(* ------------------------- loop implementation ------------------------ *)

\* Mutant of LoopStart: the elapsed-time check comes before the probe.
LoopStart_CheckFirst ==
  /\ impl = "loop" /\ pc = "init"
  /\ currentInterval' = Interval
  /\ IF now >= Timeout
     THEN /\ pc' = "done"
          /\ Settle("timeout", TimeoutError(Timeout))
          /\ UNCHANGED <<calls, inFlight, probeDue, invokedAt, instant>>
     ELSE /\ \E d \in DurSet : Invoke(d)
          /\ UNCHANGED <<outcome, result, settledAt>>
  /\ UNCHANGED <<impl, options, fn, now, timeoutTimer, sleepDue, lastResult,
                 delays>>

\* pollUntil is called: destructure the options, record startTime,
\* enter the loop, which calls fn() at once.
LoopStart ==
  /\ impl = "loop" /\ pc = "init"
  /\ currentInterval' = Interval
  /\ \E d \in DurSet : Invoke(d)
  /\ UNCHANGED <<impl, options, fn, now, timeoutTimer, sleepDue, outcome,
                 result, settledAt, lastResult, delays>>

\* Mutant of LoopProbeResolves: the elapsed time is never looked at.
LoopProbeResolves_NoTimeout ==
  /\ impl = "loop" /\ pc = "probe" /\ now = probeDue
  /\ \E r \in Yields(calls) :
       /\ lastResult' = r
       /\ inFlight' = inFlight - 1
       /\ IF LoopIsResult(r)
          THEN /\ pc' = "done"
               /\ Settle("value", [value |-> r])
               /\ UNCHANGED <<sleepDue, delays>>
          ELSE /\ Sleep
               /\ UNCHANGED <<outcome, result, settledAt>>
  /\ UNCHANGED <<impl, options, fn, now, currentInterval, timeoutTimer,
                 probeDue, calls, invokedAt, instant>>

\* await fn() yields r: return it, or throw when the timeout has elapsed,
\* or wait for the current interval.
LoopProbeResolves ==
  /\ impl = "loop" /\ pc = "probe" /\ now = probeDue
  /\ \E r \in Yields(calls) :
       /\ lastResult' = r
       /\ inFlight' = inFlight - 1
       /\ IF LoopIsResult(r)
          THEN /\ pc' = "done"
               /\ Settle("value", [value |-> r])
               /\ UNCHANGED <<sleepDue, delays>>
          ELSE IF now >= Timeout
          THEN /\ pc' = "done"
               /\ Settle("timeout", TimeoutError(Timeout))
               /\ UNCHANGED <<sleepDue, delays>>
          ELSE /\ Sleep
               /\ UNCHANGED <<outcome, result, settledAt>>
  /\ UNCHANGED <<impl, options, fn, now, currentInterval, timeoutTimer,
                 probeDue, calls, invokedAt, instant>>

\* Mutant of LoopProbeRejects: the error is caught and the probe retried
\* after the current interval.
LoopProbeRejects_Retry ==
  /\ impl = "loop" /\ pc = "probe" /\ now = probeDue
  /\ Throws(calls)
  /\ lastResult' = "throw"
  /\ inFlight' = inFlight - 1
  /\ Sleep
  /\ UNCHANGED <<impl, options, fn, now, currentInterval, timeoutTimer,
                 probeDue, calls, outcome, result, settledAt, invokedAt,
                 instant>>

\* await fn() raises: pollUntil rejects with that error.
LoopProbeRejects ==
  /\ impl = "loop" /\ pc = "probe" /\ now = probeDue
  /\ Throws(calls)
  /\ lastResult' = "throw"
  /\ inFlight' = inFlight - 1
  /\ pc' = "done"
  /\ Settle("error", ProbeError)
  /\ UNCHANGED <<impl, options, fn, now, currentInterval, timeoutTimer,
                 probeDue, sleepDue, calls, delays, invokedAt, instant>>

\* The interval timer fires: apply the backoff, call fn() again.
LoopIntervalFires ==
  /\ impl = "loop" /\ pc = "sleep" /\ now = sleepDue
  /\ calls < MaxCalls
  /\ currentInterval' = NextInterval(currentInterval)
  /\ \E d \in DurSet : Invoke(d)
  /\ UNCHANGED <<impl, options, fn, now, timeoutTimer, sleepDue, outcome,
                 result, settledAt, lastResult, delays>>

(* -------------------------------- time -------------------------------- *)

\* The instants at which something is scheduled to happen.
DueTimes ==
  (IF pc = "probe" THEN {probeDue} ELSE {})
    \cup (IF pc = "sleep" THEN {sleepDue} ELSE {})
    \cup (IF timeoutTimer = "armed" THEN {Timeout} ELSE {})

\* Nothing is due now: time passes until the next scheduled event.
Advance ==
  /\ pc # "init"
  /\ DueTimes # {}
  /\ \A t \in DueTimes : t > now
  /\ \E t \in DueTimes :
       /\ \A u \in DueTimes : t <= u
       /\ t <= MaxTime
       /\ now' = t
  /\ UNCHANGED <<impl, options, fn, pc, currentInterval, timeoutTimer,
                 probeDue, sleepDue, calls, inFlight, outcome, result,
                 settledAt, lastResult, delays, invokedAt, instant>>

\* A call of pollUntil: no Mailbox is involved.
Next ==
  \/ RaceStart /\ UNCHANGED restVars
  \/ RaceProbeResolves /\ UNCHANGED restVars
  \/ RaceProbeRejects /\ UNCHANGED restVars
  \/ RaceIntervalFires /\ UNCHANGED restVars
  \/ RaceTimeoutFires /\ UNCHANGED restVars
  \/ LoopStart /\ UNCHANGED restVars
  \/ LoopProbeResolves /\ UNCHANGED restVars
  \/ LoopProbeRejects /\ UNCHANGED restVars
  \/ LoopIntervalFires /\ UNCHANGED restVars
  \/ Advance /\ UNCHANGED restVars

Spec == Init /\ [][Next]_allVars

\* The event loop runs every callback that is due and every timer fires
\* once its time has come: a step that can be taken is taken.
FairSpec == Spec /\ WF_allVars(Next)

(* ------------------------- Mailbox wait calls ------------------------- *)

\* The most messages the server holds.
MaxInbox == 2

\* The timeout given to the client, which the client passes to the Mailbox.
MailboxTimeoutSet == {3000}

\* this.timeout = config.timeout || 30000
ClientTimeout(c) ==
  IF "timeout" \in DOMAIN c /\ c.timeout # 0 THEN c.timeout ELSE DefaultTimeout

\* The timeout a caller may pass to a wait call.
WaitTimeoutSet == {2000}

\* The default of pollInterval.
DefaultPollInterval == 1000

\* Records with the fields S of `full`.
Restrict(full, S) == [f \in S |-> full[f]]

\* WaitForEmailOptions, WaitForOTPOptions, WaitForLinkOptions:
\* every field is optional.
WaitOptionsOf(o) ==
  IF o = "waitForEmail"
  THEN {Restrict(full, S) :
          full \in [timeout : WaitTimeoutSet, subject : SubjectMatchers,
                    from : FromMatchers],
          S \in SUBSET {"timeout", "subject", "from"}}
  ELSE {Restrict(full, S) :
          full \in [timeout : WaitTimeoutSet, from : FromMatchers,
                    pattern : IF o = "waitForOTP" THEN OTPPatterns ELSE LinkPatterns],
          S \in SUBSET {"timeout", "from", "pattern"}}

\* The lists of at most n distinct messages.
Inboxes(n) ==
  {q \in UNION {[1..k -> EmailIds] : k \in 0..n} :
     \A i, j \in DOMAIN q : i # j => q[i] # q[j]}

\* The lists the server may hold when the call begins: empty, or one message.
InitialInboxes == Inboxes(1)

\* The fetches: the at-th one fails, by a rejected fetch or by a response
\* that is not ok (at = MaxCalls + 1: none fails).
Fetches ==
  {f \in [at : {2, MaxCalls + 1}, yields : {"transport", "http"}] :
     f.at = MaxCalls + 1 => f.yields = "transport"}

\* The values lastIndex of a matcher can have when the call begins: 0 for a
\* fresh RegExp, the end of a match for a RegExp with the g flag that an
\* earlier call has used.
StartIndexes(o, name) ==
  IF name \in DOMAIN o /\ o[name].type = "regexp" /\ o[name].global
  THEN {0, Len(o[name].source)}
  ELSE {0}

\* The text a matcher looks for.
MatcherText(m) == IF m.type = "string" THEN m.text ELSE m.source

\* The message satisfies the criteria of the call: its subject satisfies the
\* subject matcher, if any, and its sender the sender matcher, if any.
Satisfies(id) ==
  /\ HasSubject => Includes(Emails[id].subject, MatcherText(waitOptions.subject))
  /\ HasFrom => Includes(Emails[id].from, MatcherText(waitOptions.from))

\* The first message of a list that satisfies the criteria, or null.
FirstSatisfying(messages) ==
  LET hits == {i \in DOMAIN messages : Satisfies(messages[i])}
  IN  IF hits = {} THEN "null" ELSE messages[Leftmost(hits)]

\* A wait call begins: the Mailbox, the options, the list the server holds,
\* and the pollUntil it is about to call with { timeout, interval, backoff }.
WaitInit(configs) ==
  /\ impl \in {"race", "loop"}
  /\ op \in {"waitForEmail", "waitForOTP", "waitForLink"}
  /\ config \in configs
  /\ mailboxTimeout = ClientTimeout(config)
  /\ mailbox = TheMailbox
  /\ requests = {}
  /\ otpText = <<>>
  /\ otpLength = <<>>
  /\ otpCode = [none |-> TRUE]
  /\ waitOptions \in WaitOptionsOf(op)
  /\ options = [timeout |-> WaitTimeout, interval |-> DefaultPollInterval,
                backoff |-> TRUE]
  /\ fn \in Fetches
  /\ inbox \in InitialInboxes
  /\ lastIndex \in [subject : StartIndexes(waitOptions, "subject"),
                    from : StartIndexes(waitOptions, "from")]
  /\ concurrent \in (IF op = "waitForEmail" /\ "subject" \notin DOMAIN waitOptions
                      THEN BOOLEAN
                      ELSE {FALSE})
  /\ now = 0
  /\ pc = "init"
  /\ currentInterval = 0
  /\ timeoutTimer = "none"
  /\ probeDue = -1
  /\ sleepDue = -1
  /\ calls = 0
  /\ inFlight = 0
  /\ outcome = "pending"
  /\ result = [none |-> TRUE]
  /\ settledAt = -1
  /\ lastResult = "none"
  /\ delays = <<>>
  /\ invokedAt = <<>>
  /\ instant = TRUE
  /\ waitOutcome = "pending"
  /\ waitResult = [none |-> TRUE]
  /\ waitSettledAt = -1
  /\ inboxAtStart = inbox
  /\ lastIndexAtStart = lastIndex
  /\ lastList = <<>>
  /\ firstMatch = [fetch |-> 0, at |-> -1]
  /\ soloLastIndex = lastIndex
  /\ diverged = FALSE

\* The wait calls on a Mailbox of a client that was given a timeout.
MbInit == WaitInit([timeout : MailboxTimeoutSet])

\* pollUntil has settled and the continuation of the wait call, a microtask,
\* has not run yet.
ContinuationPending == outcome # "pending" /\ waitOutcome = "pending"

\* waitForEmail is called (by the caller, or by waitForOTP or waitForLink):
\* it calls pollUntil, whose first probe starts the first fetch.
WaitStart ==
  /\ RaceStart \/ LoopStart
  /\ requests' = requests \cup {GetMessagesRequest}
  /\ UNCHANGED <<mailboxVars, config, mailbox, extractVars>>

\* The fetch of getMessages resolves with the list the server holds; the
\* probe scans it, which moves lastIndex of the RegExp matchers, and returns
\* the message found or null to pollUntil.
FetchResolves ==
  /\ ~ContinuationPending
  /\ RaceProbeResolves \/ LoopProbeResolves
  /\ lastIndex' = Scan(inbox, lastIndex).lastIndex
  /\ lastList' = inbox
  /\ firstMatch' = IF firstMatch.fetch = 0 /\ FirstSatisfying(inbox) # "null"
                   THEN [fetch |-> calls, at |-> now]
                   ELSE firstMatch
  /\ soloLastIndex' = Scan(inbox, soloLastIndex).lastIndex
  /\ diverged' = (diverged \/ Scan(inbox, lastIndex).found
                                # Scan(inbox, soloLastIndex).found)
  /\ UNCHANGED <<op, mailboxTimeout, waitOptions, inbox, concurrent,
                 waitOutcome, waitResult, waitSettledAt, inboxAtStart,
                 lastIndexAtStart, ioVars, extractVars>>

\* fetch rejects, or the response is not ok and getMessages throws:
\* the probe rejects.
FetchRejects ==
  /\ ~ContinuationPending
  /\ RaceProbeRejects \/ LoopProbeRejects
  /\ UNCHANGED restVars

\* The interval timer of pollUntil fires: the next fetch starts.
PollIntervalFires ==
  /\ ~ContinuationPending
  /\ RaceIntervalFires \/ LoopIntervalFires
  /\ requests' = requests \cup {GetMessagesRequest}
  /\ UNCHANGED <<mailboxVars, config, mailbox, extractVars>>

\* The timeout timer of pollUntil fires.
PollTimeoutFires ==
  /\ ~ContinuationPending
  /\ RaceTimeoutFires
  /\ UNCHANGED restVars

\* Time passes until the next scheduled event.
Tick ==
  /\ ~ContinuationPending
  /\ Advance
  /\ UNCHANGED restVars

\* An email arrives: the server puts it at the end of the list it returns.
Deliver ==
  /\ pc # "init"
  /\ waitOutcome = "pending" /\ ~ContinuationPending
  /\ Len(inbox) < MaxInbox
  /\ \E id \in EmailIds \ Range(inbox) : inbox' = Append(inbox, id)
  /\ UNCHANGED <<vars, op, mailboxTimeout, waitOptions, lastIndex, concurrent,
                 waitOutcome, waitResult, waitSettledAt, inboxAtStart,
                 lastIndexAtStart, lastList, firstMatch, soloLastIndex,
                 diverged, ioVars, extractVars>>

\* The probe of a second wait call, given the same matcher objects, scans
\* the list: its test() calls move lastIndex of the shared RegExp objects.
OtherWaitScans ==
  /\ concurrent
  /\ pc # "init"
  /\ waitOutcome = "pending" /\ ~ContinuationPending
  /\ lastIndex' = Scan(inbox, lastIndex).lastIndex
  /\ lastIndex' # lastIndex
  /\ UNCHANGED <<vars, op, mailboxTimeout, waitOptions, inbox, concurrent,
                 waitOutcome, waitResult, waitSettledAt, inboxAtStart,
                 lastIndexAtStart, lastList, firstMatch, soloLastIndex,
                 diverged, ioVars, extractVars>>

\* The wait call settles.
WaitSettle(kind, val) ==
  /\ waitOutcome' = kind
  /\ waitResult' = val
  /\ waitSettledAt' = now
  /\ UNCHANGED <<vars, op, mailboxTimeout, waitOptions, inbox, lastIndex,
                 concurrent, inboxAtStart, lastIndexAtStart, lastList,
                 firstMatch, soloLastIndex, diverged, ioVars, extractVars>>

\* await pollUntil(...) throws in waitForEmail: the timeout error or the
\* error of the fetch passes through waitForEmail, and through waitForOTP
\* and waitForLink, to the caller.
WaitRejects ==
  /\ ContinuationPending
  /\ outcome \in {"timeout", "error"}
  /\ WaitSettle(outcome, result)

\* Mutant of WaitForEmailReturns: the email found is marked as read on the
\* server before it is returned.
WaitForEmailReturns_MarksRead ==
  /\ ContinuationPending
  /\ op = "waitForEmail" /\ outcome = "value"
  /\ waitOutcome' = "value"
  /\ waitResult' = result
  /\ waitSettledAt' = now
  /\ requests' = requests \cup
       {[method |-> "PATCH",
         url |-> <<"/mailbox/", mailbox.address, "/", result.value>>]}
  /\ UNCHANGED <<vars, op, mailboxTimeout, waitOptions, inbox, lastIndex,
                 concurrent, inboxAtStart, lastIndexAtStart, lastList,
                 firstMatch, soloLastIndex, diverged, config, mailbox,
                 extractVars>>

\* waitForEmail: return email
WaitForEmailReturns ==
  /\ ContinuationPending
  /\ op = "waitForEmail" /\ outcome = "value"
  /\ WaitSettle("value", result)

\* pattern ? extractByPattern(email.bodyText, pattern)
\*         : extractOTP(email.bodyText)
OTPOf(email) ==
  IF HasPattern
  THEN extractByPattern(email.bodyText, waitOptions.pattern)
  ELSE extractOTP(email.bodyText)

\* Mutant of WaitForOTPExtracts: a message without a code is reported as
\* the polling timeout.
WaitForOTPExtracts_AsTimeout ==
  /\ ContinuationPending
  /\ op = "waitForOTP" /\ outcome = "value"
  /\ LET email == Emails[result.value]
         otp == OTPOf(email)
     IN  IF Falsy(otp)
         THEN WaitSettle("timeout", TimeoutError(WaitTimeout))
         ELSE WaitSettle("value", otp)

\* waitForOTP after its await of waitForEmail: extract the code from the
\* text body, throw when there is none.
WaitForOTPExtracts ==
  /\ ContinuationPending
  /\ op = "waitForOTP" /\ outcome = "value"
  /\ LET email == Emails[result.value]
         otp == OTPOf(email)
     IN  IF Falsy(otp)
         THEN WaitSettle("error", NoOTPError(email))
         ELSE WaitSettle("value", otp)

\* Mutant of BodyOf: the HTML body is used whenever the field is there.
BodyOf_Present(email) ==
  IF "bodyHtml" \in DOMAIN email THEN email.bodyHtml ELSE email.bodyText

\* email.bodyHtml || email.bodyText
BodyOf(email) ==
  IF "bodyHtml" \in DOMAIN email /\ email.bodyHtml # <<>>
  THEN email.bodyHtml
  ELSE email.bodyText

\* Mutant of LinkOf: when the chosen body holds no link the text body is
\* searched as well.
LinkOf_EitherBody(email) ==
  LET pattern == IF HasPattern THEN waitOptions.pattern ELSE Null
      link == extractVerificationLink(BodyOf(email), pattern)
  IN  IF Falsy(link)
      THEN extractVerificationLink(email.bodyText, pattern)
      ELSE link

\* extractVerificationLink(body, pattern)
LinkOf(email) ==
  extractVerificationLink(BodyOf(email),
                          IF HasPattern THEN waitOptions.pattern ELSE Null)

\* waitForLink after its await of waitForEmail: extract the link from the
\* HTML body or else the text body, throw when there is none.
WaitForLinkExtracts ==
  /\ ContinuationPending
  /\ op = "waitForLink" /\ outcome = "value"
  /\ LET email == Emails[result.value]
         link == LinkOf(email)
     IN  IF Falsy(link)
         THEN WaitSettle("error", NoLinkError(email))
         ELSE WaitSettle("value", link)

MbNext ==
  \/ WaitStart
  \/ FetchResolves
  \/ FetchRejects
  \/ PollIntervalFires
  \/ PollTimeoutFires
  \/ Tick
  \/ Deliver
  \/ OtherWaitScans
  \/ WaitRejects
  \/ WaitForEmailReturns
  \/ WaitForOTPExtracts
  \/ WaitForLinkExtracts

MailboxSpec == MbInit /\ [][MbNext]_allVars

(* ------------------------------ claims -------------------------------- *)

\* Exact power, for stating the backoff law without fractions.
RECURSIVE Pow(_, _)
Pow(b, e) == IF e = 0 THEN 1 ELSE b * Pow(b, e - 1)

\* C1: pollUntil resolves to the value of the first probe invocation whose
\* result is present (neither null nor undefined); the probe is never invoked
\* after that invocation, so the number of invocations is that invocation's
\* index when the call returns and ever after.
C1_ResolvesToFirstPresentResult ==
  /\ calls <= fn.at
  /\ outcome = "value" =>
       /\ fn.yields # "throw"
       /\ result = [value |-> fn.yields]
       /\ calls = fn.at

\* C2: while no probe invocation has yielded a present value the call is not
\* pending past the timeout and does not succeed past it; it fails with
\* "Polling timeout after {timeout}ms", and never before the timeout elapsed.
C2_TimeoutErrorAtTimeout ==
  /\ outcome = "pending" => now <= Timeout
  /\ outcome = "value" => settledAt <= Timeout
  /\ outcome = "timeout" =>
       /\ result = TimeoutError(Timeout)
       /\ settledAt >= Timeout

\* C3: with timeout=3000, interval=1000, the other options left out and a
\* probe that yields null every time and takes no time, the call fails with
\* "Polling timeout after 3000ms" at an elapsed time in [3000, 4000).
C3_Scenario3000 ==
  (/\ options = [timeout |-> 3000, interval |-> 1000]
   /\ instant
   /\ calls < fn.at
   /\ lastResult \in {"none", "null"}) =>
     /\ outcome \in {"pending", "timeout"}
     /\ outcome = "pending" => now < 4000
     /\ outcome = "timeout" =>
          /\ result = TimeoutError(3000)
          /\ settledAt >= 3000
          /\ settledAt < 4000

\* C4: a probe invocation that raises before the timeout makes the call fail
\* at that instant with that same error; no delay follows it and the probe is
\* not invoked again, whatever the number of absent results before it.
C4_ProbeErrorPropagates ==
  lastResult = "throw" =>
     /\ pc = "done"
     /\ inFlight = 0
     /\ calls = fn.at
     /\ Len(delays) = fn.at - 1
     /\ probeDue < Timeout =>
          /\ outcome = "error"
          /\ result = ProbeError
          /\ settledAt = probeDue

C4_Witness ==
  /\ lastResult = "throw"
  /\ calls >= 3
  /\ outcome = "error"
  /\ now > settledAt

\* C5: a probe result of 0, false or the empty string ends the polling: the
\* loop stops with no further invocation or delay, and the call succeeds with
\* that very value at the instant it was yielded (unless the timeout had
\* already elapsed by then).
C5_FalsyValuesArePresent ==
  lastResult \in {"0", "false", ""} =>
     /\ pc = "done"
     /\ inFlight = 0
     /\ calls = fn.at
     /\ Len(delays) = fn.at - 1
     /\ (probeDue < Timeout \/ impl = "loop") =>
          /\ outcome = "value"
          /\ result = [value |-> lastResult]
          /\ settledAt = probeDue

C5_Witness ==
  /\ lastResult \in {"0", "false", ""}
  /\ outcome = "value"
  /\ result = [value |-> lastResult]
  /\ calls >= 2
  /\ now > settledAt

\* C6: a probe result of null or undefined is never what the call resolves
\* to: after such a result the loop waits the current interval and invokes
\* the probe again (or the call fails with the timeout error).
C6_NullAndUndefinedAreAbsent ==
  /\ outcome = "value" => result.value \notin AbsentValues
  /\ lastResult \in AbsentValues =>
       /\ outcome # "value"
       /\ pc = "done" => outcome = "timeout"

\* C7: with backoff enabled the n-th delay is min(i * 1.5^(n-1), m), for the
\* initial interval i and the maximum interval m (both sides times 2^(n-1)).
C7_BackoffLaw ==
  Backoff =>
    \A n \in 1..Len(delays) :
      delays[n] * Pow(BackoffDen, n - 1) =
        Min(Interval * Pow(BackoffNum, n - 1), MaxInterval * Pow(BackoffDen, n - 1))

\* C8: with backoff disabled every delay is the initial interval, and a probe
\* (taking no time) whose first present result is its k-th makes the call
\* succeed after exactly k invocations and k-1 delays, at (k-1)*interval,
\* provided (k-1)*interval is below the timeout.
C8_FixedInterval ==
  ~Backoff =>
    /\ \A n \in 1..Len(delays) : delays[n] = Interval
    /\ (instant /\ fn.yields # "throw" /\ (fn.at - 1) * Interval < Timeout) =>
         /\ outcome \in {"pending", "value"}
         /\ outcome = "value" =>
              /\ calls = fn.at
              /\ Len(delays) = fn.at - 1
              /\ settledAt = (fn.at - 1) * Interval

\* C9: at most one probe invocation of a call is in flight at any time: one
\* is in flight exactly while the loop awaits it.
C9_AtMostOneInFlight ==
  /\ inFlight <= 1
  /\ inFlight = 1 <=> pc = "probe"

C9_Witness ==
  /\ calls >= 2
  /\ inFlight = 1
  /\ now < probeDue

\* C10: the first probe invocation happens at elapsed time 0 with no delay
\* before it, and for every timeout (0 included) the probe has been invoked
\* at least once when the call fails with the timeout error.
C10_FirstProbeImmediate ==
  /\ calls >= 1 => invokedAt[1] = 0
  /\ pc # "init" => calls >= 1 /\ Len(delays) = calls - (IF pc = "sleep" THEN 0 ELSE 1)
  /\ outcome = "timeout" => calls >= 1

C10_Witness ==
  /\ Timeout = 0
  /\ outcome = "timeout"
  /\ calls = 1
  /\ invokedAt[1] = 0

(* ------------------------------ the client ---------------------------- *)

\* The RegExp matchers are fresh (lastIndex 0) when the call begins.
FreshMatchers == lastIndexAtStart = [subject |-> 0, from |-> 0]

\* The timeouts a caller may give to the client.
ClientTimeoutSet == {0, 3000}

\* TempyEmailConfig: the timeout is optional.
ClientConfigs == {Restrict(full, S) : full \in [timeout : ClientTimeoutSet],
                                     S \in SUBSET {"timeout"}}

\* new TempyEmail(config), createMailbox(), then a wait call that selects by
\* sender at most, on RegExp matchers that are fresh.
ClInit ==
  /\ WaitInit(ClientConfigs)
  /\ DOMAIN waitOptions \subseteq {"timeout", "from"}
  /\ FreshMatchers

ClientSpec == ClInit /\ [][MbNext]_allVars

(* ----------------------- claims on the wait calls --------------------- *)

\* C11: on each tick the scan of waitForEmail returns the first message of
\* the fetched list, in list order, whose subject satisfies the subject
\* matcher (if given) and whose sender satisfies the sender matcher (if
\* given), and null when the list holds no such message; an absent matcher
\* matches every message.  Stated for a call that runs alone and whose
\* RegExp matchers are fresh (lastIndex 0) when it begins.
C11_ReturnsFirstSatisfying ==
  (~concurrent /\ FreshMatchers /\ lastResult \notin {"none", "throw"})
    => lastResult = FirstSatisfying(lastList)

\* C12: the list is fetched anew on every tick: when the k-th fetch is the
\* first whose list holds a message satisfying the criteria, and it returns
\* before the timeout, pollUntil resolves with a satisfying message of that
\* list after exactly k fetches, and does not time out.
C12_ReturnsAtFirstSatisfyingFetch ==
  (/\ ~concurrent /\ FreshMatchers
   /\ firstMatch.fetch > 0
   /\ firstMatch.at < Timeout)
    => /\ outcome = "value"
       /\ result.value \in Range(lastList)
       /\ Satisfies(result.value)
       /\ calls = firstMatch.fetch
       /\ settledAt = firstMatch.at

\* C13: a wait call returns only a new email: the message pollUntil resolves
\* with was not in the list the server held when the call began.
C13_ReturnsOnlyNewEmail ==
  outcome = "value" => result.value \notin Range(inboxAtStart)

\* C14: when no fetch has failed and no fetched list has held a message
\* satisfying the criteria, a wait call that has settled has failed with
\* "Polling timeout after {timeout}ms", where timeout is the one passed to
\* the call (this.timeout of the Mailbox when none was passed).
C14_TimeoutWhenNothingSatisfies ==
  (waitOutcome # "pending" /\ firstMatch.fetch = 0 /\ lastResult # "throw")
    => /\ waitOutcome = "timeout"
       /\ waitResult =
            TimeoutError(IF "timeout" \in DOMAIN waitOptions
                         THEN waitOptions.timeout
                         ELSE mailboxTimeout)

\* The call was given a timeout, saw a list of messages none of which
\* satisfied the criteria on at least two fetches, and timed out.
C14_Witness ==
  /\ waitOutcome = "timeout"
  /\ "timeout" \in DOMAIN waitOptions
  /\ firstMatch.fetch = 0 /\ lastResult = "null"
  /\ lastList # <<>>
  /\ calls >= 2

\* C15: a fetch that fails (fetch rejects, or the response is not ok) is the
\* last fetch of the call: nothing is in flight or scheduled after it, and
\* the call, unless it had timed out before, has failed at that moment with
\* the error of the fetch, which the wait call passes on unchanged.
C15_FetchErrorEndsTheWait ==
  (op # "pollUntil" /\ lastResult = "throw")
    => /\ pc = "done" /\ inFlight = 0
       /\ calls = fn.at
       /\ \/ outcome = "error" /\ result = ProbeError /\ settledAt = probeDue
          \/ outcome = "timeout" /\ settledAt <= probeDue
       /\ waitOutcome # "pending"
            => /\ waitOutcome = outcome
               /\ waitResult = result
               /\ waitSettledAt = settledAt

\* waitForOTP has failed with the error of a response that was not ok, with
\* time left before its deadline.
C15_Witness ==
  /\ op = "waitForOTP" /\ fn.yields = "http"
  /\ lastResult = "throw"
  /\ waitOutcome = "error" /\ waitResult = ProbeError
  /\ waitSettledAt < Timeout

\* C16: when waitForOTP has found a message and the extraction from its
\* text body yields nothing, the call fails with "No OTP code found in
\* email" naming the subject of that message, not with the timeout error,
\* and at the moment the message was found.
C16_NoCodeIsAnExtractionError ==
  (/\ op = "waitForOTP" /\ outcome = "value" /\ waitOutcome # "pending"
   /\ OTPOf(Emails[result.value]) = Null)
    => /\ waitOutcome = "error"
       /\ waitResult = NoOTPError(Emails[result.value])
       /\ waitResult # TimeoutError(Timeout)
       /\ waitSettledAt = settledAt

\* waitForOTP found m3, whose text body holds no code, before the deadline
\* and has failed naming the subject "X".
C16_Witness ==
  /\ op = "waitForOTP" /\ outcome = "value" /\ result.value = "m3"
  /\ waitOutcome = "error"
  /\ waitResult.message[2] = <<"X">>
  /\ waitSettledAt < Timeout

\* C17: waitForOTP selects by sender only and returns the code extracted
\* from the text body of the first message of the fetched list whose sender
\* satisfies the sender matcher, with the caller's pattern if one was given
\* and the default extractor otherwise; "Your code is 123456" without a
\* pattern gives "123456".
C17_CodeOfFirstSenderMatch ==
  (op = "waitForOTP" /\ waitOutcome = "value")
    => LET hits == {i \in DOMAIN lastList :
                      HasFrom => Includes(Emails[lastList[i]].from,
                                          MatcherText(waitOptions.from))}
           email == Emails[lastList[Leftmost(hits)]]
       IN  /\ hits # {}
           /\ result.value = lastList[Leftmost(hits)]
           /\ waitResult =
                (IF "pattern" \in DOMAIN waitOptions
                 THEN extractByPattern(email.bodyText, waitOptions.pattern)
                 ELSE extractOTP(email.bodyText))
           /\ (result.value = "m2" /\ "pattern" \notin DOMAIN waitOptions)
                => waitResult = Str(<<"1", "2", "3", "4", "5", "6">>)

\* C18 as stated: waitForLink extracts the link from the HTML body whenever
\* the message has one, and from the text body only when it has none.
C18_HtmlBodyWheneverPresent ==
  (op = "waitForLink" /\ outcome = "value" /\ waitOutcome # "pending")
    => LET email == Emails[result.value]
           body == IF "bodyHtml" \in DOMAIN email
                   THEN email.bodyHtml
                   ELSE email.bodyText
           link == extractVerificationLink(
                     body, IF HasPattern THEN waitOptions.pattern ELSE Null)
       IN  IF link = Null
           THEN waitOutcome = "error" /\ waitResult = NoLinkError(email)
           ELSE waitOutcome = "value" /\ waitResult = link

\* C18, amended: waitForLink extracts the link from the HTML body when the
\* message has one that is not empty, and from the text body when the HTML
\* body is absent or the empty string; when both bodies hold a matching
\* link, the one of the HTML body is returned.
C18_HtmlBodyWhenNotEmpty ==
  (op = "waitForLink" /\ outcome = "value" /\ waitOutcome # "pending")
    => LET email == Emails[result.value]
           body == IF "bodyHtml" \in DOMAIN email /\ Len(email.bodyHtml) > 0
                   THEN email.bodyHtml
                   ELSE email.bodyText
           link == extractVerificationLink(
                     body, IF HasPattern THEN waitOptions.pattern ELSE Null)
       IN  IF link = Null
           THEN waitOutcome = "error" /\ waitResult = NoLinkError(email)
           ELSE waitOutcome = "value" /\ waitResult = link

\* waitForLink found m4, whose two bodies both hold a verification link,
\* and returned the link of the HTML body.
C18_Witness ==
  /\ op = "waitForLink" /\ outcome = "value" /\ result.value = "m4"
  /\ extractVerificationLink(Emails["m4"].bodyText, Null) # Null
  /\ extractVerificationLink(Emails["m4"].bodyHtml, Null) # Null
  /\ waitOutcome = "value"
  /\ waitResult = extractVerificationLink(Emails["m4"].bodyHtml, Null)
  /\ waitResult # extractVerificationLink(Emails["m4"].bodyText, Null)

\* The state of a waitForOTP / waitForLink call, read from what the caller
\* can observe: the settlement of the call and its error.
WaitState ==
  IF waitOutcome = "pending"
  THEN (IF outcome = "value" THEN "MessageFound" ELSE "AwaitingMessage")
  ELSE IF waitOutcome = "value" THEN "Extracted"
  ELSE IF waitResult.message[1] = TimeoutError(Timeout).message[1]
  THEN "TimedOut"
  ELSE IF waitResult.message[1] = ProbeError.message[1] THEN "SourceError"
  ELSE IF waitResult.message[1] \in {NoOTPError(Emails.m1).message[1],
                                     NoLinkError(Emails.m1).message[1]}
  THEN "ExtractionFailed"
  ELSE "Unknown"

WaitTransitions ==
  {<<"AwaitingMessage", "MessageFound">>,
   <<"MessageFound", "Extracted">>,
   <<"MessageFound", "ExtractionFailed">>,
   <<"AwaitingMessage", "TimedOut">>,
   <<"AwaitingMessage", "SourceError">>}

\* A step of a waitForOTP / waitForLink call that C19 allows.
WaitStep ==
  op \in {"waitForOTP", "waitForLink"}
    => /\ WaitState' # WaitState
            => <<WaitState, WaitState'>> \in WaitTransitions
       /\ WaitState \in {"MessageFound", "Extracted", "ExtractionFailed"}
            => /\ calls' = calls
               /\ inFlight' = 0
               /\ WaitState' \notin {"TimedOut", "SourceError"}

\* C19: a waitForOTP / waitForLink call changes state only along
\* AwaitingMessage -> MessageFound -> {Extracted | ExtractionFailed},
\* AwaitingMessage -> TimedOut and AwaitingMessage -> SourceError; the four
\* terminal states are told apart by the error and are never left; from
\* MessageFound on no fetch is made and the call neither times out nor
\* fails with a fetch error.
C19_WaitStateMachine == [][WaitStep]_allVars

\* waitForLink went through MessageFound on its second fetch or later and
\* ended in ExtractionFailed.
C19_Witness ==
  /\ op = "waitForLink" /\ calls >= 2
  /\ outcome = "value"
  /\ WaitState = "ExtractionFailed"

\* C20: a wait call that runs interleaved with another wait call on the
\* same mailbox, given the same matcher objects, gets from every scan the
\* result it would have got had it run alone against the same lists.
C20_ConcurrentCallsIndependent == concurrent => ~diverged

(* ----------------------------- the parsers ---------------------------- *)

\* Bound on the length of the generated texts.
MaxText == 3

\* The characters of the generated texts: letters of both cases, a digit and
\* a separator.
ExtractChars == {"A", "b", "1", " "}

\* The texts of the tests of extractAlphanumericOTP that hold a code or
\* a candidate of the default length.
ExampleTexts ==
  { <<"C", "o", "d", "e", ":", " ", "A", "B", "C", "1", "2", "3">>,
    <<"C", "o", "d", "e", ":", " ", "1", "2", "3", "4", "5", "6">>,
    <<"C", "o", "d", "e", ":", " ", "A", "B", "C", "D", "E", "F">> }

Texts ==
  UNION {[1..n -> ExtractChars] : n \in 0..MaxText} \cup ExampleTexts

\* The length argument: omitted, or a length the generated texts can hold.
Lengths == {<<>>} \cup {<<n>> : n \in 2..MaxText}

\* length = 6
Length == IF otpLength = <<>> THEN AlphanumericLength ELSE otpLength[1]

\* No wait call is in progress: the parser is called on its own.
ExInit ==
  /\ otpText \in Texts
  /\ otpLength \in Lengths
  /\ otpCode = [none |-> TRUE]
  /\ impl = "race"
  /\ options = <<>>
  /\ fn = [at |-> 1, yields |-> "throw"]
  /\ now = 0
  /\ pc = "init"
  /\ currentInterval = 0
  /\ timeoutTimer = "none"
  /\ probeDue = -1
  /\ sleepDue = -1
  /\ calls = 0
  /\ inFlight = 0
  /\ outcome = "pending"
  /\ result = [none |-> TRUE]
  /\ settledAt = -1
  /\ lastResult = "none"
  /\ delays = <<>>
  /\ invokedAt = <<>>
  /\ instant = TRUE
  /\ op = "extractAlphanumericOTP"
  /\ mailboxTimeout = DefaultTimeout
  /\ waitOptions = <<>>
  /\ inbox = <<>>
  /\ lastIndex = [subject |-> 0, from |-> 0]
  /\ concurrent = FALSE
  /\ waitOutcome = "pending"
  /\ waitResult = [none |-> TRUE]
  /\ waitSettledAt = -1
  /\ inboxAtStart = <<>>
  /\ lastIndexAtStart = [subject |-> 0, from |-> 0]
  /\ lastList = <<>>
  /\ firstMatch = [fetch |-> 0, at |-> -1]
  /\ soloLastIndex = [subject |-> 0, from |-> 0]
  /\ diverged = FALSE
  /\ config = <<>>
  /\ mailbox = TheMailbox
  /\ requests = {}

\* extractAlphanumericOTP(text, length) returns.
ExtractAlphanumeric ==
  /\ op = "extractAlphanumericOTP"
  /\ otpCode = [none |-> TRUE]
  /\ otpCode' = extractAlphanumericOTP(otpText, Length)
  /\ UNCHANGED <<vars, mailboxVars, ioVars, otpText, otpLength>>

ExNext == ExtractAlphanumeric

ExtractSpec == ExInit /\ [][ExNext]_allVars

(* ------------------- claims on the client and the rest ---------------- *)

\* C21: a wait call polls with the timeout option it was given; without
\* one, with the timeout given to the client that created the mailbox,
\* whatever its value; and with 30000ms when the client was given none.
C21_ClientTimeoutIsTheDefault ==
  pc # "init"
    => Timeout = (IF "timeout" \in DOMAIN waitOptions THEN waitOptions.timeout
                  ELSE IF "timeout" \in DOMAIN config THEN config.timeout
                  ELSE 30000)

\* C22: extractAlphanumericOTP returns a token only when the token has the
\* requested length and holds at least one letter and at least one digit; a
\* text whose only candidate is all digits or all letters gives null.
C22_CodeMixesLettersAndDigits ==
  "text" \in DOMAIN otpCode
    => /\ Len(otpCode.text) = Length
       /\ Range(otpCode.text) \cap Letters # {}
       /\ Range(otpCode.text) \cap Digits # {}

\* C23: with backoff enabled the current interval lies between the initial
\* interval and the maximum interval at every tick and the delays never
\* decrease, for every configured initial and maximum interval; with backoff
\* disabled the interval never changes.
C23_IntervalWithinBounds ==
  pc # "init" =>
    IF Backoff
      THEN /\ Interval <= currentInterval
           /\ currentInterval <= MaxInterval
           /\ \A n \in 1..(Len(delays) - 1) : delays[n] <= delays[n + 1]
      ELSE /\ currentInterval = Interval
           /\ \A n \in 1..Len(delays) : delays[n] = Interval

\* A step taken after pollUntil has failed with the timeout error invokes
\* no probe and schedules no delay.
NoPollingAfterTimeout ==
  outcome = "timeout" => (calls' = calls /\ delays' = delays)

\* C24: once pollUntil has failed with the timeout error the probe is not
\* invoked again and no further delay is scheduled: the number of probe
\* invocations is final at the failure.
C24_TimeoutStopsThePolling == [][NoPollingAfterTimeout]_allVars

\* The call has settled in one of the three ways, and what it settled with
\* is of that kind.
SettledOneWay ==
  \/ outcome = "value" /\ DOMAIN result = {"value"}
  \/ outcome = "timeout" /\ result = TimeoutError(Timeout)
  \/ outcome = "error" /\ result = ProbeError

\* C25: a pollUntil call whose timeout is finite (here: within the time the
\* model covers) and whose probe invocations each complete eventually
\* settles, and settles in exactly one of three ways: with a present value,
\* with the timeout error, or with the error the probe raised.
C25_EventuallySettles ==
  /\ (Timeout <= MaxTime) ~> SettledOneWay
  /\ [](outcome = "pending" \/ SettledOneWay)

\* A call that polled more than once has settled with the timeout error.
C25_Witness ==
  /\ Timeout <= MaxTime
  /\ outcome = "timeout"
  /\ calls >= 2
  /\ SettledOneWay

\* One step of the polling loop, seen from the delays: a delay is scheduled
\* after an invocation, for the current interval; it is not cut short; the
\* next invocation starts when it has elapsed; the interval changes only then.
DelayStep ==
  /\ delays' # delays =>
       /\ delays' = Append(delays, currentInterval)
       /\ Len(delays') = calls
       /\ sleepDue' = now + currentInterval
       /\ currentInterval' = currentInterval
  /\ (pc = "sleep" /\ pc' = "sleep") => sleepDue' = sleepDue
  /\ (calls >= 1 /\ calls' # calls) =>
       /\ calls' = calls + 1
       /\ pc = "sleep" /\ now = sleepDue
       /\ Len(delays) = calls /\ delays' = delays
  /\ (calls >= 1 /\ currentInterval' # currentInterval) =>
       /\ pc = "sleep" /\ now = sleepDue
       /\ currentInterval' = NextInterval(currentInterval)
  /\ \A n \in 1..(Len(invokedAt') - 1) :
       invokedAt'[n + 1] >= invokedAt'[n] + delays'[n]

\* C26: between two consecutive probe invocations exactly one delay elapses,
\* of the interval current when it was scheduled; the delay is neither
\* skipped nor shortened and the interval is updated only once the delay
\* has completed.
C26_OneFullDelayBetweenProbes == [][DelayStep]_allVars

\* Three invocations, the second delay longer than the first, each delay
\* begun when the invocation before it completed.
C26_Witness ==
  /\ Len(invokedAt) >= 3
  /\ delays[2] > delays[1]
  /\ invokedAt[3] >= invokedAt[2] + delays[2]
  /\ invokedAt[2] > invokedAt[1] + delays[1]

\* C27: the wait calls only read the mailbox: every request they have sent
\* is a GET of the message list of the mailbox, none marks a message as read
\* or deletes anything, the messages the server held at the start are still
\* there, and the fields of the Mailbox (address, expiresAt, webhookUrl) are
\* as constructed.
C27_WaitCallsOnlyRead ==
  /\ \A r \in requests :
       r.method = "GET" /\ r.url = <<"/mailbox/", "test@tempy.email">>
  /\ mailbox = [address |-> "test@tempy.email", expiresAt |-> 3600000]
  /\ Len(inbox) >= Len(inboxAtStart)
  /\ \A i \in 1..Len(inboxAtStart) : inbox[i] = inboxAtStart[i]

\* A wait call has fetched the list more than once and has returned a message.
C27_Witness ==
  /\ waitOutcome = "value"
  /\ calls >= 2
  /\ requests # {}
  /\ inboxAtStart # <<>>

\* A settled call stays as it settled; once the timeout has passed the call
\* is not pending; and a timeout failure happens at the timeout.
SettlesOnceStep ==
  /\ outcome # "pending" =>
       (outcome' = outcome /\ result' = result /\ settledAt' = settledAt)
  /\ now' > Timeout => outcome' # "pending"
  /\ outcome' = "timeout" => settledAt' = Timeout

\* C28: pollUntil settles exactly once.  When the timeout expires while a
\* probe invocation is in flight the call fails with the timeout error at
\* that moment, and what the invocation yields or raises later does not
\* change the outcome; when the call has settled with a value or a probe
\* error, the later expiry of the timeout does not change it either.
C28_SettlesExactlyOnce == [][SettlesOnceStep]_allVars

\* C29: the outcome of waitForOTP / waitForLink is decided by the first
\* message, in list order, whose sender satisfies the sender matcher: the
\* call that has left the polling with a message has that message, returns
\* what is extracted from it, and fails with the extraction error naming it
\* when nothing is extracted, whatever the later messages of the list hold;
\* the polling is over.
C29_FirstSenderMatchDecides ==
  (op \in {"waitForOTP", "waitForLink"} /\ outcome = "value"
     /\ waitOutcome # "pending")
    => LET hits == {i \in DOMAIN lastList :
                      HasFrom => Includes(Emails[lastList[i]].from,
                                          MatcherText(waitOptions.from))}
           first == Emails[lastList[Leftmost(hits)]]
           found == IF op = "waitForOTP" THEN OTPOf(first) ELSE LinkOf(first)
           error == IF op = "waitForOTP" THEN NoOTPError(first)
                                         ELSE NoLinkError(first)
       IN  /\ hits # {}
           /\ IF Falsy(found)
              THEN waitOutcome = "error" /\ waitResult = error
              ELSE waitOutcome = "value" /\ waitResult = found
           /\ pc = "done" /\ inFlight = 0

\* C30: waitForLink extracts from exactly one body.  When the message has an
\* HTML body that is not empty, the link comes from it, and when it holds no
\* matching link the call fails with "No verification link found" even if
\* the text body holds one; the text body is used only when the HTML body is
\* missing or empty.
C30_ExactlyOneBody ==
  (op = "waitForLink" /\ outcome = "value" /\ waitOutcome # "pending")
    => LET email == Emails[result.value]
           pattern == IF HasPattern THEN waitOptions.pattern ELSE Null
           hasHtml == "bodyHtml" \in DOMAIN email /\ email.bodyHtml # <<>>
           inHtml == IF hasHtml
                     THEN extractVerificationLink(email.bodyHtml, pattern)
                     ELSE Null
           inText == extractVerificationLink(email.bodyText, pattern)
       IN  /\ (hasHtml /\ inHtml = Null)
             => waitOutcome = "error" /\ waitResult = NoLinkError(email)
           /\ (hasHtml /\ inHtml # Null)
             => waitOutcome = "value" /\ waitResult = inHtml
           /\ (~hasHtml /\ inText # Null)
             => waitOutcome = "value" /\ waitResult = inText
           /\ (~hasHtml /\ inText = Null)
             => waitOutcome = "error" /\ waitResult = NoLinkError(email)

\* waitForLink found m1, whose HTML body holds no link and whose text body
\* holds a verification link, and has failed with the extraction error.
C30_Witness ==
  /\ op = "waitForLink" /\ outcome = "value" /\ result.value = "m1"
  /\ Emails["m1"].bodyHtml # <<>>
  /\ extractVerificationLink(Emails["m1"].bodyHtml, Null) = Null
  /\ extractVerificationLink(Emails["m1"].bodyText, Null) # Null
  /\ waitOutcome = "error"
  /\ waitResult = NoLinkError(Emails["m1"])

=============================================================================
